---- MODULE Spec2Model ----
(***************************************************************************)
(* Verification model of the water-quality ETL (wq_etl.py): the well-number *)
(* normalizer fix_well_name, the row filter and transform                  *)
(* transform_wq_data, the upsert loader load_data_into_pg_warehouse and the *)
(* per-file loop of __main__.                                              *)
(*                                                                         *)
(* Strings the code inspects character by character are sequences of       *)
(* one-character strings.  A null cell of a DataFrame is the value Null.   *)
(***************************************************************************)
EXTENDS Naturals, Sequences, FiniteSets

VARIABLES
    pc,         \* position of __main__ / of load_data_into_pg_warehouse
    inbox,      \* raw files present in data_dump
    todo,       \* files of the os.listdir listing not yet iterated
    cur,        \* raw_data_file of the current iteration (0: none)
    raw,        \* rows read from the current file by pl.read_csv
    data,       \* the variable `data`: [ok |-> FALSE] is Python None
    now,        \* logical value of datetime.today()
    snapshot,   \* data_dump/bsk_cleaned_data_<date>.parquet
    loaded,     \* loaded_data/bsk_data_loaded_<date>.parquet
    con,        \* the variable `con`: "None", "open" or "closed"
    idx,        \* index of the next row of data.to_numpy() to execute
    table,      \* rows of the warehouse table {schema_name}.{table}
    config,     \* etl_yaml, loaded once per run
    db,         \* which relations exist in the warehouse
    events,     \* per file: what has happened while it was processed
    runs,       \* number of calls of load_data_into_pg_warehouse so far
    firstTable, \* table contents when the first call of load returned
    well,       \* a state_well_number cell given to fix_well_name
    once,       \* fix_well_name(well)
    twice,      \* fix_well_name(fix_well_name(well))
    npc         \* how many times fix_well_name has been applied to well

vars == <<pc, inbox, todo, cur, raw, data, now, snapshot, loaded, con, idx,
          table, config, db, events, runs, firstTable, well, once, twice, npc>>

PipelineVars == <<pc, inbox, todo, cur, raw, data, now, snapshot, loaded, con,
                  idx, table, config, db, events, runs, firstTable>>

NormVars == <<well, once, twice, npc>>

(***************************************************************************)
(* Bounds of the model.                                                    *)
(***************************************************************************)
MaxFiles == 2
MaxRows == 2
MaxTokens == 3

(***************************************************************************)
(* Character strings.                                                      *)
(***************************************************************************)
Null == <<"<null>">>

Hyphen == <<"-">>
Space == <<" ">>
TownRange == <<"3", "0", "S", "/", "2", "5", "E">>
Transposed == <<"3", "0", "E", "/", "2", "5", "S">>
ISH01 == <<"I", "S", "H", "0", "1">>
S020D1 == <<"0", "2", "0", "D", "1">>
S20D01 == <<"2", "0", "D", "0", "1">>
S20D1 == <<"2", "0", "D", "1">>
S02D == <<"0", "2", "D">>
S2D01 == <<"2", "D", "0", "1">>
KWB == <<"K", "W", "B">>
Sampled == <<"1", "/", "2", " ", "9", ":", "0", "0">>
Five == <<"5">>
Seven == <<"7">>
FieldBlank == <<"F", "i", "e", "l", "d", " ", "B", "l", "a", "n", "k">>
TB == <<"T", "B">>
TCP == <<"T", "C", "P">>
Ketzer == <<"K", "e", "t", "z", "e", "r">>

\* polars str.contains(pat) for a pattern without regex metacharacters
str_contains(s, pat) ==
    \E i \in 1..Len(s) :
        /\ i + Len(pat) - 1 <= Len(s)
        /\ SubSeq(s, i, i + Len(pat) - 1) = pat

\* index of the leftmost match of pat in s
FirstMatch(s, pat) ==
    CHOOSE i \in 1..Len(s) :
        /\ i + Len(pat) - 1 <= Len(s)
        /\ SubSeq(s, i, i + Len(pat) - 1) = pat
        /\ \A j \in 1..(i - 1) : SubSeq(s, j, j + Len(pat) - 1) # pat

\* polars str.replace(pat, rep): only the leftmost match is replaced
str_replace(s, pat, rep) ==
    IF str_contains(s, pat)
    THEN LET i == FirstMatch(s, pat)
         IN  SubSeq(s, 1, i - 1) \o rep \o SubSeq(s, i + Len(pat), Len(s))
    ELSE s

NotSpace(c) == c # " "

\* polars str.replace_all(" ", "")
str_strip_spaces(s) == SelectSeq(s, NotSpace)

(***************************************************************************)
(* fix_well_name, one cell at a time.                                      *)
(***************************************************************************)
\* a plausible slip: the second pass of line 94 left out
SeparatorNormalize_NoSecondPass(s) ==
    IF str_contains(s, Hyphen)
    THEN str_strip_spaces(s)
    ELSE str_replace(s, Space, Hyphen)

\* lines 90-94: the when/then/otherwise on "-" and the second replace_all
SeparatorNormalize(s) ==
    LET first == IF str_contains(s, Hyphen)
                 THEN str_strip_spaces(s)
                 ELSE str_replace(s, Space, Hyphen)
    IN  str_strip_spaces(first)

\* a plausible slip: the zero appended instead of inserted after the hyphen
PadByLength_Appends(s) ==
    IF Len(s) = 12 THEN s \o <<"0">>
    ELSE IF Len(s) = 11 THEN s \o <<"0", "1">>
    ELSE s

\* lines 96-103: len_chars and the padding chosen by it
PadByLength(s) ==
    IF Len(s) = 12 THEN str_replace(s, Hyphen, <<"-", "0">>)
    ELSE IF Len(s) = 11 THEN s \o <<"0", "1">>
    ELSE s

\* lines 104-112: the chain of literal corrections, first match wins
LiteralCorrection(s) ==
    IF s = TownRange \o Hyphen \o ISH01
    THEN str_replace(s, <<"I", "S">>, <<"1", "5">>)
    ELSE IF s = TownRange \o Hyphen \o S020D1
    THEN str_replace(s, S020D1, S20D01)
    ELSE IF str_contains(s, Transposed)
    THEN str_replace(s, Transposed, TownRange)
    ELSE s

\* lines 79-114; a null cell stays null through every str expression
fix_well_name(s) ==
    IF s = Null THEN Null
    ELSE LiteralCorrection(PadByLength(SeparatorNormalize(s)))

(***************************************************************************)
(* Inputs of the normalizer: concatenations of at most MaxTokens pieces.   *)
(***************************************************************************)
Tokens ==
    {TownRange, Transposed, Hyphen, Space, ISH01, S020D1, S20D1, S2D01, S02D}

RECURSIVE Concat(_)
Concat(ts) == IF ts = <<>> THEN <<>> ELSE Head(ts) \o Concat(Tail(ts))

TokenSeqs == UNION {[1..n -> Tokens] : n \in 1..MaxTokens}

WellInputs == {Concat(ts) : ts \in TokenSeqs}

(***************************************************************************)
(* transform_wq_data.  A raw row carries the cells the transform reads,    *)
(* under the names new_cols_dict gives them; a cleaned row is what is      *)
(* written to the snapshot and to the warehouse.                           *)
(***************************************************************************)
Files == 1..MaxFiles

\* a plausible slip: the trip-blank test left out
well_filter_NoTB(r) ==
    /\ r.state_well_number # Null
    /\ ~str_contains(r.state_well_number, FieldBlank)
    /\ ~str_contains(r.state_well_number, TCP)

\* lines 64-67: a null cell makes the predicate null and filter drops the row
well_filter(r) ==
    /\ r.state_well_number # Null
    /\ ~str_contains(r.state_well_number, FieldBlank)
    /\ ~str_contains(r.state_well_number, TB)
    /\ ~str_contains(r.state_well_number, TCP)

\* line 68: drop_nulls("result")
result_present(r) == r.result # Null

\* lines 72-74: str.replace(" (.*)", "") cuts from the first space on
strip_time(s) ==
    IF s = Null THEN Null
    ELSE IF str_contains(s, Space)
    THEN SubSeq(s, 1, FirstMatch(s, Space) - 1)
    ELSE s

\* lines 61-63 and 70-74 on one surviving row
clean_row(r, today) ==
    [state_well_number |-> fix_well_name(r.state_well_number),
     sample_date |-> strip_time(r.sample_date),
     result |-> r.result,
     date_added |-> today]

None == [ok |-> FALSE, rows |-> <<>>]

\* lines 60-76: any exception (a column the configuration names is absent)
\* is swallowed by the bare except and the function returns None
transform_wq_data(cfg, d, today) ==
    IF ~cfg.mappingOK THEN None
    ELSE LET kept == SelectSeq(SelectSeq(d.rows, well_filter), result_present)
         IN  [ok |-> TRUE,
              rows |-> [i \in 1..Len(kept) |-> clean_row(kept[i], today)]]

\* line 249: filter on Sample.SampleName containing "Ketzer"
site_match(r) == str_contains(r.name, Ketzer)

site_filter(rows) == SelectSeq(rows, site_match)

(***************************************************************************)
(* The warehouse table and the upsert statement of build_load_query.       *)
(***************************************************************************)
\* the columns named by etl_yaml["prim_key"]
PrimKey(r) == <<r.state_well_number, r.sample_date>>

\* a plausible slip: ON CONFLICT ... DO NOTHING
Upsert_DoNothing(t, row) ==
    IF \E r \in t : PrimKey(r) = PrimKey(row) THEN t ELSE t \cup {row}

\* lines 210-214: INSERT ... ON CONFLICT prim_key DO UPDATE SET
\* update_col = Excluded.update_col, with update_col the result column
Upsert(t, row) ==
    IF \E r \in t : PrimKey(r) = PrimKey(row)
    THEN {IF PrimKey(r) = PrimKey(row)
          THEN [r EXCEPT !.result = row.result]
          ELSE r : r \in t}
    ELSE t \cup {row}

Event(f, e) == [events EXCEPT ![f] = @ \cup e]

\* the relation check_table_exists probes: line 178 passes db_name and
\* table_name, line 216-217 write to schema_name and table
ProbedExists == IF config.probeIsTarget THEN db.target ELSE db.probed

(***************************************************************************)
(* Inputs of the pipeline.                                                 *)
(***************************************************************************)
GoodWell == TownRange \o Space \o S2D01

RawRow(n, w, r) ==
    [name |-> n, state_well_number |-> w, result |-> r, sample_date |-> Sampled]

PipelineRows ==
    {RawRow(Ketzer, GoodWell, Five), RawRow(Ketzer, TB, Five),
     RawRow(KWB, GoodWell, Five)}

SeqsUpTo(S, n) == UNION {[1..k -> S] : k \in 0..n}

Configs == [mappingOK : BOOLEAN, probeIsTarget : BOOLEAN]

Databases == [target : BOOLEAN, probed : BOOLEAN]

NormIdle == well = <<>> /\ once = <<>> /\ twice = <<>> /\ npc = 0

Init ==
    /\ pc = "start"
    /\ inbox \in SUBSET Files
    /\ todo = {} /\ cur = 0 /\ raw = <<>>
    /\ data = [ok |-> TRUE, rows |-> <<>>]
    /\ now = 0
    /\ snapshot = [present |-> FALSE] /\ loaded = [present |-> FALSE]
    /\ con = "None" /\ idx = 1 /\ table = {}
    /\ config \in Configs
    /\ db \in Databases
    /\ config.probeIsTarget => db.probed = db.target
    /\ events = [f \in Files |-> {}]
    /\ runs = 0 /\ firstTable = {}
    /\ NormIdle

(***************************************************************************)
(* __main__, one action per step of the loop body.                         *)
(***************************************************************************)
\* lines 231-241: quit on an empty inbox, else take the listing
Start ==
    /\ pc = "start"
    /\ \/ /\ inbox = {}
          /\ pc' = "done"
          /\ UNCHANGED todo
       \/ /\ inbox # {}
          /\ todo' = inbox
          /\ pc' = "loop"
    /\ UNCHANGED <<inbox, cur, raw, data, now, snapshot, loaded, con, idx,
                   table, config, db, events, runs, firstTable>>
    /\ UNCHANGED NormVars

\* line 243 exhausted, line 271
LoopEnd ==
    /\ pc = "loop" /\ todo = {}
    /\ pc' = "done"
    /\ UNCHANGED <<inbox, todo, cur, raw, data, now, snapshot, loaded, con,
                   idx, table, config, db, events, runs, firstTable>>
    /\ UNCHANGED NormVars

\* lines 243-247: the next file of the listing is read; read_csv raises on
\* a cell that does not fit polars_schema and nothing catches it
ReadFile ==
    /\ pc = "loop" /\ todo # {}
    /\ \E f \in todo :
        /\ cur' = f
        /\ todo' = todo \ {f}
        /\ \/ /\ \E rows \in SeqsUpTo(PipelineRows, MaxRows) : raw' = rows
              /\ events' = Event(f, {"read"})
              /\ pc' = "filter"
           \/ /\ raw' = <<>>
              /\ events' = Event(f, {"format_error"})
              /\ pc' = "crashed"
    /\ UNCHANGED <<inbox, data, now, snapshot, loaded, con, idx, table,
                   config, db, runs, firstTable>>
    /\ UNCHANGED NormVars

\* a plausible slip: the os.remove of line 252 left out
FilterSite_NoRemove ==
    /\ pc = "filter"
    /\ data' = [ok |-> TRUE, rows |-> site_filter(raw)]
    /\ \/ /\ site_filter(raw) = <<>>
          /\ events' = Event(cur, {"no_match"})
          /\ raw' = <<>>
          /\ pc' = "loop"
          /\ UNCHANGED inbox
       \/ /\ site_filter(raw) # <<>>
          /\ pc' = "transform"
          /\ UNCHANGED <<inbox, events, raw>>
    /\ UNCHANGED <<todo, cur, now, snapshot, loaded, con, idx, table,
                   config, db, runs, firstTable>>
    /\ UNCHANGED NormVars

\* lines 249-253; on continue the rows read are dead (line 247 overwrites
\* them before any use) and are dropped from the state
FilterSite ==
    /\ pc = "filter"
    /\ data' = [ok |-> TRUE, rows |-> site_filter(raw)]
    /\ \/ /\ site_filter(raw) = <<>>
          /\ inbox' = inbox \ {cur}
          /\ events' = Event(cur, {"no_match", "removed"})
          /\ raw' = <<>>
          /\ pc' = "loop"
       \/ /\ site_filter(raw) # <<>>
          /\ pc' = "transform"
          /\ UNCHANGED <<inbox, events, raw>>
    /\ UNCHANGED <<todo, cur, now, snapshot, loaded, con, idx, table,
                   config, db, runs, firstTable>>
    /\ UNCHANGED NormVars

\* lines 255-260
Transform ==
    /\ pc = "transform"
    /\ now' = now + 1
    /\ data' = transform_wq_data(config, data, now + 1)
    /\ events' = Event(cur, IF config.mappingOK THEN {"transformed"}
                                                ELSE {"mapping_error"})
    /\ pc' = "snapshot"
    /\ UNCHANGED <<inbox, todo, cur, raw, snapshot, loaded, con, idx, table,
                   config, db, runs, firstTable>>
    /\ UNCHANGED NormVars

\* line 262: None has no write_parquet, the AttributeError ends the run
WriteSnapshot ==
    /\ pc = "snapshot"
    /\ \/ /\ ~data.ok
          /\ pc' = "crashed"
          /\ UNCHANGED <<snapshot, events>>
       \/ /\ data.ok
          /\ snapshot' = [present |-> TRUE, rows |-> data.rows]
          /\ events' = Event(cur, {"snapshot"})
          /\ pc' = "connect"
    /\ UNCHANGED <<inbox, todo, cur, raw, data, now, loaded, con, idx, table,
                   config, db, runs, firstTable>>
    /\ UNCHANGED NormVars

(***************************************************************************)
(* load_data_into_pg_warehouse.                                            *)
(***************************************************************************)
\* line 177, get_pg_connection: an OperationalError is logged and None is
\* returned
Connect ==
    /\ pc = "connect"
    /\ runs' = runs + 1
    /\ idx' = 1
    /\ \/ /\ con' = "open"
          /\ events' = Event(cur, {"connect"})
       \/ /\ con' = "None"
          /\ events' = Event(cur, {"connection_error"})
    /\ pc' = "probe"
    /\ UNCHANGED <<inbox, todo, cur, raw, data, now, snapshot, loaded, table,
                   config, db, firstTable>>
    /\ UNCHANGED NormVars

\* line 178, check_table_exists: None has no cursor; a missing relation is
\* a ProgrammingError, which except pg.OperationalError does not catch
CheckTable ==
    /\ pc = "probe"
    /\ \/ /\ con = "None"
          /\ pc' = "crashed"
          /\ UNCHANGED events
       \/ /\ con = "open" /\ ProbedExists
          /\ events' = Event(cur, {"log_table_exists"})
          /\ pc' = "exec"
       \/ /\ con = "open"
          /\ events' = Event(cur, {"log_probe_error"})
          /\ pc' = "exec"
       \/ /\ con = "open" /\ ~ProbedExists
          /\ events' = Event(cur, {"undefined_table"})
          /\ pc' = "crashed"
    /\ UNCHANGED <<inbox, todo, cur, raw, data, now, snapshot, loaded, con,
                   idx, table, config, db, runs, firstTable>>
    /\ UNCHANGED NormVars

\* lines 181-183 and 190-192: one row's statement; a failure closes the
\* connection, is logged, and load returns
ExecRow ==
    /\ pc = "exec" /\ idx <= Len(data.rows)
    /\ \/ /\ db.target
          /\ table' = Upsert(table, data.rows[idx])
          /\ idx' = idx + 1
          /\ events' = Event(cur, {"execute"})
          /\ UNCHANGED <<con, pc>>
       \/ /\ con' = "closed"
          /\ events' = Event(cur, {"execute", "statement_error"})
          /\ pc' = "archive"
          /\ UNCHANGED <<table, idx>>
    /\ UNCHANGED <<inbox, todo, cur, raw, data, now, snapshot, loaded,
                   config, db, runs, firstTable>>
    /\ UNCHANGED NormVars

\* lines 184-189
LoadDone ==
    /\ pc = "exec" /\ idx > Len(data.rows)
    /\ con' = "closed"
    /\ events' = Event(cur, {"log_loaded"})
    /\ pc' = "archive"
    /\ UNCHANGED <<inbox, todo, cur, raw, data, now, snapshot, loaded, idx,
                   table, config, db, runs, firstTable>>
    /\ UNCHANGED NormVars

\* lines 266-269; raw and data are dead after the iteration (lines 247-249
\* overwrite them before any use) and are dropped from the state
Archive ==
    /\ pc = "archive"
    /\ loaded' = snapshot
    /\ snapshot' = [present |-> FALSE]
    /\ inbox' = inbox \ {cur}
    /\ events' = Event(cur, {"renamed", "removed"})
    /\ raw' = <<>>
    /\ data' = [ok |-> TRUE, rows |-> <<>>]
    /\ pc' = "loop"
    /\ UNCHANGED <<todo, cur, now, con, idx, table, config, db, runs,
                   firstTable>>
    /\ UNCHANGED NormVars

Next ==
    \/ Start \/ LoopEnd \/ ReadFile \/ FilterSite \/ Transform
    \/ WriteSnapshot \/ Connect \/ CheckTable \/ ExecRow \/ LoadDone
    \/ Archive

Spec == Init /\ [][Next]_vars

Idle ==
    /\ pc = "idle" /\ inbox = {} /\ todo = {} /\ cur = 0 /\ raw = <<>>
    /\ data = [ok |-> TRUE, rows |-> <<>>] /\ now = 0
    /\ snapshot = [present |-> FALSE] /\ loaded = [present |-> FALSE]
    /\ con = "None" /\ idx = 1 /\ table = {}
    /\ config = [mappingOK |-> TRUE, probeIsTarget |-> TRUE]
    /\ db = [target |-> TRUE, probed |-> TRUE]
    /\ events = [f \in Files |-> {}] /\ runs = 0 /\ firstTable = {}

InitNorm ==
    /\ Idle
    /\ well \in WellInputs
    /\ once = <<>> /\ twice = <<>> /\ npc = 0

\* state_well_number := fix_well_name(state_well_number), first application
Normalize ==
    /\ npc = 0
    /\ once' = fix_well_name(well)
    /\ npc' = 1
    /\ UNCHANGED <<well, twice>>
    /\ UNCHANGED PipelineVars

\* the normalizer applied to its own output
NormalizeAgain ==
    /\ npc = 1
    /\ twice' = fix_well_name(once)
    /\ npc' = 2
    /\ UNCHANGED <<well, once>>
    /\ UNCHANGED PipelineVars

NextNorm == Normalize \/ NormalizeAgain

SpecNorm == InitNorm /\ [][NextNorm]_vars

(***************************************************************************)
(* transform_wq_data on its own, over batches that hold every kind of row  *)
(* the filter distinguishes.                                               *)
(***************************************************************************)
SpacedTB == <<"T", " ", "B", "-", "1">>

TransformRows ==
    {RawRow(Ketzer, w, r) :
        w \in {Null, FieldBlank, TB, TownRange \o Hyphen \o TCP, SpacedTB,
               GoodWell},
        r \in {Null, Five}}

InitTransform ==
    /\ pc = "transform"
    /\ inbox = {1} /\ todo = {} /\ cur = 1
    /\ raw \in SeqsUpTo(TransformRows, MaxRows)
    /\ data = [ok |-> TRUE, rows |-> site_filter(raw)]
    /\ now = 0
    /\ snapshot = [present |-> FALSE] /\ loaded = [present |-> FALSE]
    /\ con = "None" /\ idx = 1 /\ table = {}
    /\ config \in [mappingOK : BOOLEAN, probeIsTarget : {TRUE}]
    /\ db = [target |-> TRUE, probed |-> TRUE]
    /\ events = [f \in Files |-> {}]
    /\ runs = 0 /\ firstTable = {}
    /\ NormIdle

NextTransform == Transform

SpecTransform == InitTransform /\ [][NextTransform]_vars

(***************************************************************************)
(* load_data_into_pg_warehouse called twice with the same cleaned batch,   *)
(* from any table whose primary key is unique.                             *)
(***************************************************************************)
CleanRow(w, r, d) ==
    [state_well_number |-> w, sample_date |-> <<"1", "/", "2">>,
     result |-> r, date_added |-> d]

Well1 == TownRange \o Hyphen \o <<"0">> \o S2D01
Well2 == TownRange \o Hyphen \o S20D01

BatchRows == {CleanRow(w, r, 1) : w \in {Well1, Well2}, r \in {Five, Seven}}

StoredRows == {CleanRow(w, r, 0) : w \in {Well1, Well2}, r \in {Five, Seven}}

UniqueKeys(t) == \A r1, r2 \in t : PrimKey(r1) = PrimKey(r2) => r1 = r2

InitLoad ==
    /\ pc = "connect"
    /\ inbox = {1} /\ todo = {} /\ cur = 1 /\ raw = <<>>
    /\ \E rows \in SeqsUpTo(BatchRows, MaxRows) :
          data = [ok |-> TRUE, rows |-> rows]
    /\ now = 1
    /\ snapshot = [present |-> FALSE] /\ loaded = [present |-> FALSE]
    /\ con = "None" /\ idx = 1
    /\ table \in {t \in SUBSET StoredRows : UniqueKeys(t)}
    /\ config \in [mappingOK : {TRUE}, probeIsTarget : BOOLEAN]
    /\ db \in Databases
    /\ config.probeIsTarget => db.probed = db.target
    /\ events = [f \in Files |-> {}]
    /\ runs = 0 /\ firstTable = {}
    /\ NormIdle

\* the caller invokes load a second time with the same batch
Reload ==
    /\ pc = "archive" /\ runs = 1
    /\ firstTable' = table
    /\ pc' = "connect"
    /\ UNCHANGED <<inbox, todo, cur, raw, data, now, snapshot, loaded, con,
                   idx, table, config, db, events, runs>>
    /\ UNCHANGED NormVars

NextLoad == Connect \/ CheckTable \/ ExecRow \/ LoadDone \/ Reload

SpecLoad == InitLoad /\ [][NextLoad]_vars

(***************************************************************************)
(* Properties of the per-file loop, under Spec.                            *)
(***************************************************************************)
\* processing of file f has ended: the loop is past its iteration
Ended(f) == events[f] # {} /\ (cur # f \/ pc \in {"loop", "done"})

\* C1: a file whose load hit a failing upsert statement is still in the
\* inbox, and its snapshot has not been moved to the loaded location, when
\* processing of that file ends.
C1_FailedBatchStaysInInbox ==
    \A f \in Files :
        ("statement_error" \in events[f] /\ Ended(f)) =>
            (f \in inbox /\ "renamed" \notin events[f])

\* C2: whatever error is raised while a file is processed, the run never
\* terminates abnormally and every file of the listing is processed.
C2_NoErrorEndsTheRun ==
    /\ pc # "crashed"
    /\ pc = "done" => todo = {}

\* C4: when the relation the rows are written to does not exist, no
\* INSERT is executed for any row of a batch, and a load that probed and
\* was left has logged the probe's error.
C4_NoInsertWithoutTable ==
    ~db.target =>
        \A f \in Files :
            /\ "execute" \notin events[f]
            /\ ("connect" \in events[f] /\ Ended(f)) =>
                  "log_probe_error" \in events[f]

\* C5: outside load_data_into_pg_warehouse no connection it acquired is
\* still open, on whichever path load was left.
C5_ConnectionClosedOnExit == con = "open" => pc \in {"probe", "exec"}

NoSiteRows(rows) ==
    \A i \in 1..Len(rows) : ~str_contains(rows[i].name, Ketzer)

\* C10: a file with no row matching the site predicate is removed from the
\* inbox and nothing else happens: no snapshot is written, no connection
\* is opened, no row is written, and the loop goes on to the next file.
C10_NoMatchIsNoOp ==
    [][(pc = "filter" /\ NoSiteRows(raw)) =>
          /\ inbox' = inbox \ {cur}
          /\ pc' = "loop"
          /\ UNCHANGED <<snapshot, loaded, con, table, runs, now, todo>>]_vars

C10_Witness ==
    /\ pc = "filter" /\ "read" \in events[cur]
    /\ \E g \in Files \ {cur} :
          /\ "no_match" \in events[g]
          /\ "connect" \notin events[g]
          /\ g \notin inbox

(***************************************************************************)
(* Properties of the transform, under SpecTransform.                       *)
(***************************************************************************)
\* null contains no substring
Mentions(w, pat) == w # Null /\ str_contains(w, pat)

IsBlankOrControl(w) ==
    Mentions(w, FieldBlank) \/ Mentions(w, TB) \/ Mentions(w, TCP)

ClaimedSurvivor(r) == ~IsBlankOrControl(r.state_well_number) /\ r.result # Null

ActualSurvivor(r) == r.state_well_number # Null /\ ClaimedSurvivor(r)

RECURSIVE KeepClaimed(_)
KeepClaimed(rows) ==
    IF rows = <<>> THEN <<>>
    ELSE IF ClaimedSurvivor(Head(rows))
    THEN <<Head(rows)>> \o KeepClaimed(Tail(rows))
    ELSE KeepClaimed(Tail(rows))

RECURSIVE KeepActual(_)
KeepActual(rows) ==
    IF rows = <<>> THEN <<>>
    ELSE IF ActualSurvivor(Head(rows))
    THEN <<Head(rows)>> \o KeepActual(Tail(rows))
    ELSE KeepActual(Tail(rows))

Transformed == pc = "snapshot" /\ data.ok

\* C9: the output holds no row whose identifier contains "Field Blank",
\* "TB" or "TCP" and no row with a null result, and every other input row
\* survives.
C9_FilterAsClaimed ==
    Transformed =>
        /\ \A i \in 1..Len(data.rows) :
              /\ ~IsBlankOrControl(data.rows[i].state_well_number)
              /\ data.rows[i].result # Null
        /\ Len(data.rows) = Len(KeepClaimed(site_filter(raw)))

\* C9, amended: the output is, in order, the input rows whose identifier is
\* non-null and, as read, contains none of the three substrings, and whose
\* result is non-null, each with its identifier normalized.
C9_FilterOnRawIdentifier ==
    Transformed =>
        LET kept == KeepActual(site_filter(raw))
        IN  /\ Len(data.rows) = Len(kept)
            /\ \A i \in 1..Len(kept) :
                  /\ data.rows[i].state_well_number =
                        fix_well_name(kept[i].state_well_number)
                  /\ data.rows[i].result = kept[i].result
                  /\ data.rows[i].result # Null

C9_Witness ==
    /\ Transformed
    /\ \E i \in 1..Len(raw) : raw[i].state_well_number = Null
    /\ \E i \in 1..Len(raw) : raw[i].state_well_number = TB
    /\ Len(data.rows) = 0

(***************************************************************************)
(* Properties of the loader, under SpecLoad.                               *)
(***************************************************************************)
\* the result of the last row of the batch with the key of row i
LastResult(rows, i) ==
    LET j == CHOOSE k \in 1..Len(rows) :
                 /\ PrimKey(rows[k]) = PrimKey(rows[i])
                 /\ \A m \in (k + 1)..Len(rows) :
                        PrimKey(rows[m]) # PrimKey(rows[i])
    IN  rows[j].result

LoadedTwice ==
    pc = "archive" /\ runs = 2 /\ "statement_error" \notin events[cur]

\* C3: after two statement-failure-free loads of the same batch the table
\* is as the first load left it, holds one row per primary key, and the
\* update column holds the batch's value.
C3_LoadIdempotent ==
    LoadedTwice =>
        /\ table = firstTable
        /\ UniqueKeys(table)
        /\ \A i \in 1..Len(data.rows) :
              \E r \in table :
                  /\ PrimKey(r) = PrimKey(data.rows[i])
                  /\ r.result = LastResult(data.rows, i)

C3_Witness ==
    /\ LoadedTwice
    /\ \E i \in 1..Len(data.rows) :
          \E r \in table :
              /\ PrimKey(r) = PrimKey(data.rows[i])
              /\ r.date_added = 0
              /\ r.result = data.rows[i].result

(***************************************************************************)
(* Properties of the normalizer, under SpecNorm.                           *)
(***************************************************************************)
HyphenCount(s) == Cardinality({i \in 1..Len(s) : s[i] = "-"})

AfterHyphen(s) == Len(s) - FirstMatch(s, Hyphen)

CanonicalShape(s) ==
    /\ HyphenCount(s) = 1
    /\ AfterHyphen(s) = 5
    /\ ~str_contains(s, Space)

ZeroAfterHyphen(s) ==
    LET i == FirstMatch(s, Hyphen)
    IN  SubSeq(s, 1, i) \o <<"0">> \o SubSeq(s, i + 1, Len(s))

HasLiteralCorrection(s) ==
    \/ s = TownRange \o Hyphen \o ISH01
    \/ s = TownRange \o Hyphen \o S020D1
    \/ str_contains(s, Transposed)

\* C6: on a 13-character identifier of the canonical shape, normalizing
\* twice gives what normalizing once gives.
C6_IdempotentOnCanonical ==
    (npc = 2 /\ Len(well) = 13 /\ CanonicalShape(well)) => twice = once

\* C7: an identifier of length 12 after separator normalization comes out
\* with "0" inserted immediately after the hyphen, and of length 13.
C7_PadTwelve ==
    (npc >= 1 /\ Len(SeparatorNormalize(well)) = 12) =>
        /\ Len(once) = 13
        /\ str_contains(SeparatorNormalize(well), Hyphen)
        /\ once = ZeroAfterHyphen(SeparatorNormalize(well))

\* C7, amended: an identifier of length 12 after separator normalization
\* that contains a hyphen comes out with length 13, and is the identifier
\* with "0" inserted immediately after its first hyphen unless a literal
\* correction then rewrites the padded value; one without a hyphen is not
\* padded and keeps length 12.
C7_PadTwelveWithHyphen ==
    LET sep == SeparatorNormalize(well)
    IN  (npc >= 1 /\ Len(sep) = 12) =>
            IF str_contains(sep, Hyphen)
            THEN /\ Len(once) = 13
                 /\ ~HasLiteralCorrection(ZeroAfterHyphen(sep)) =>
                       once = ZeroAfterHyphen(sep)
            ELSE Len(once) = 12

C7_Witness ==
    /\ npc >= 1
    /\ well = TownRange \o Space \o S2D01
    /\ once = TownRange \o Hyphen \o <<"0">> \o S2D01

\* C8: every identifier returned has exactly one "-", exactly 5 characters
\* after it, and no space.
C8_AlwaysCanonical == npc >= 1 => CanonicalShape(once)

\* what separator normalization must have produced for the result to have
\* the canonical shape: one hyphen, followed by 3 characters at length 11,
\* by 4 at length 12, by 5 at any other length
Paddable(s) ==
    /\ HyphenCount(s) = 1
    /\ AfterHyphen(s) = (IF Len(s) = 11 THEN 3 ELSE IF Len(s) = 12 THEN 4 ELSE 5)

\* C8, amended: every identifier returned is free of spaces, and it has
\* exactly one "-" followed by exactly 5 characters exactly when the
\* separator-normalized input is paddable.
C8_CanonicalIffPaddable ==
    npc >= 1 =>
        /\ ~str_contains(once, Space)
        /\ CanonicalShape(once) <=> Paddable(SeparatorNormalize(well))

C8_Witness ==
    /\ npc >= 1
    /\ str_contains(well, Space)
    /\ ~str_contains(well, Hyphen)
    /\ Len(well) = 11
    /\ CanonicalShape(once)

====
